---- MODULE Spec2Model ----
(***************************************************************************)
(* Hierarchical Worley noise (src/main.rs): the seeded cell hasher, the    *)
(* single-level 3x3 nearest-centre search, the recursive composition and   *)
(* the parallel per-pixel render loop of main.                             *)
(*                                                                         *)
(* Machine numbers keep their width.  A u64 is a sequence of eight bytes,  *)
(* least significant first, a u32 a sequence of four.  An f32 is a record  *)
(* [s, m, e] standing for (-1)^s * m * 2^e with m = 0 (zero) or            *)
(* 2^23 <= m < 2^24; every f32 operation rounds to nearest, ties to even,  *)
(* as IEEE 754 binary32 does.  The inputs are bounded, so exponents stay   *)
(* in the normal range; -0.0 is identified with +0.0 (the program never    *)
(* reads the sign of a zero).                                              *)
(***************************************************************************)
EXTENDS Integers, Sequences, FiniteSets

(***************************************************************************)
(* u64 arithmetic                                                          *)
(***************************************************************************)

\* The byte sequence of a 64-bit literal written as four 16-bit groups,
\* most significant group first (0xa0761d6478bd642f is U64(\ha076, ...)).
U64(g3, g2, g1, g0) ==
    << g0 % 256, g0 \div 256, g1 % 256, g1 \div 256,
       g2 % 256, g2 \div 256, g3 % 256, g3 \div 256 >>

\* Byte i (0 = least significant) of a word, 0 beyond its width.
ByteAt(w, i) == IF i >= 0 /\ i < Len(w) THEN w[i + 1] ELSE 0

\* Bitwise exclusive or of two bytes.
XorByte(a, b) ==
      ((a + b) % 2)
    + 2   * (((a \div 2)   + (b \div 2))   % 2)
    + 4   * (((a \div 4)   + (b \div 4))   % 2)
    + 8   * (((a \div 8)   + (b \div 8))   % 2)
    + 16  * (((a \div 16)  + (b \div 16))  % 2)
    + 32  * (((a \div 32)  + (b \div 32))  % 2)
    + 64  * (((a \div 64)  + (b \div 64))  % 2)
    + 128 * (((a \div 128) + (b \div 128)) % 2)

\* x ^ y on u64.
Xor64(a, b) ==
    << XorByte(a[1], b[1]), XorByte(a[2], b[2]), XorByte(a[3], b[3]),
       XorByte(a[4], b[4]), XorByte(a[5], b[5]), XorByte(a[6], b[6]),
       XorByte(a[7], b[7]), XorByte(a[8], b[8]) >>

\* Column k (from 0) of the schoolbook product of two u64, before carries.
MulColumn(a, b, k) ==
    LET t(i) == IF i <= k THEN a[i + 1] * b[k - i + 1] ELSE 0
    IN  t(0) + t(1) + t(2) + t(3) + t(4) + t(5) + t(6) + t(7)

\* The product's bytes k..7, appended to out, with the carry into column k.
RECURSIVE MulBytes(_, _, _, _, _)
MulBytes(a, b, k, carry, out) ==
    IF k > 7 THEN out
    ELSE LET col == MulColumn(a, b, k) + carry
         IN  MulBytes(a, b, k + 1, col \div 256, Append(out, col % 256))

\* u64::wrapping_mul: the low 64 bits of the product.
wrapping_mul(a, b) == MulBytes(a, b, 0, 0, <<>>)

\* Byte i (from 1) of a u64 rotated left by 8 * q + r bits.
RotByte(a, i, q, r) ==
      ((a[((i - 1 - q) % 8) + 1] * (2 ^ r)) % 256)
    + (a[((i - 2 - q) % 8) + 1] \div (2 ^ (8 - r)))

\* u64::rotate_left by n bits, 0 < n < 64.
rotate_left(a, n) ==
    LET q == n \div 8
        r == n % 8
    IN  << RotByte(a, 1, q, r), RotByte(a, 2, q, r), RotByte(a, 3, q, r),
           RotByte(a, 4, q, r), RotByte(a, 5, q, r), RotByte(a, 6, q, r),
           RotByte(a, 7, q, r), RotByte(a, 8, q, r) >>

\* Byte i (from 1) of h >> (8 * q + r).
ShrByte(h, i, q, r) ==
      (ByteAt(h, i - 1 + q) \div (2 ^ r))
    + ((ByteAt(h, i + q) % (2 ^ r)) * (2 ^ (8 - r)))

\* (h >> n) as u32: bits n .. n+31 of a u64, as four bytes.
ShrAsU32(h, n) ==
    LET q == n \div 8
        r == n % 8
    IN  << ShrByte(h, 1, q, r), ShrByte(h, 2, q, r),
           ShrByte(h, 3, q, r), ShrByte(h, 4, q, r) >>

\* The bytes of a natural number below 2^31, as a u64.
NatToU64(n) ==
    << n % 256, (n \div 256) % 256, (n \div 65536) % 256,
       (n \div 16777216) % 256, 0, 0, 0, 0 >>

\* !x on u64.
Not64(a) ==
    << 255 - a[1], 255 - a[2], 255 - a[3], 255 - a[4],
       255 - a[5], 255 - a[6], 255 - a[7], 255 - a[8] >>

\* i32 as i64 as u64: sign extension to the two's-complement bit pattern.
I32AsU64(n) == IF n >= 0 THEN NatToU64(n) ELSE Not64(NatToU64(-n - 1))

(***************************************************************************)
(* cell_hash (main.rs 198-207)                                             *)
(***************************************************************************)

\* Hashes the seed + cell coordinate.
cell_hash(cell, seed) ==
    LET x0 == wrapping_mul(I32AsU64(cell[1]), U64(\ha076, \h1d64, \h78bd, \h642f))
        y0 == wrapping_mul(I32AsU64(cell[2]), U64(\he703, \h7ed1, \ha0b4, \h28db))
        s0 == wrapping_mul(seed, U64(\h8ebc, \h6af0, \h9c88, \hc6e3))
        x1 == Xor64(x0, rotate_left(y0, 25))
        y1 == Xor64(y0, rotate_left(s0, 47))
        s1 == Xor64(s0, rotate_left(x1, 17))
    IN  Xor64(s1, y1)

(***************************************************************************)
(* f32 arithmetic                                                          *)
(***************************************************************************)

F32Zero == [s |-> 0, m |-> 0, e |-> 0]

\* Number of bits of a positive integer below 2^31.
BitLen(n) ==
    IF n >= 1073741824 THEN 31
    ELSE CHOOSE k \in 1..30 : n < 2 ^ k /\ n >= 2 ^ (k - 1)

\* A significand that rounding carried up to 2^24 is renormalised.
RoundCarry(s, q, e) ==
    IF q = 16777216 THEN [s |-> s, m |-> 8388608, e |-> e + 1]
                    ELSE [s |-> s, m |-> q, e |-> e]

\* q is the kept part, rem the dropped bits, half the weight of the first
\* dropped bit: up when above half, or at half with sticky or q odd.
RoundNearestEven(s, q, rem, half, sticky, e) ==
    RoundCarry(s,
               IF rem > half \/ (rem = half /\ (sticky \/ q % 2 = 1))
               THEN q + 1 ELSE q,
               e)

\* sig has n bits: shifted left to 24 bits (exact) or right (rounded).
RoundBits(s, sig, sticky, e, n) ==
    IF n <= 24
    THEN [s |-> s, m |-> sig * (2 ^ (24 - n)), e |-> e - (24 - n)]
    ELSE RoundNearestEven(s, sig \div (2 ^ (n - 24)), sig % (2 ^ (n - 24)),
                          2 ^ (n - 25), sticky, e + (n - 24))

\* Round to nearest, ties to even: the f32 nearest to
\* (-1)^s * (sig + f) * 2^e, where 0 <= f < 1 and sticky says f > 0.
\* A caller that passes sticky passes sig >= 2^25.
F32Round(s, sig, sticky, e) ==
    IF sig = 0 THEN F32Zero ELSE RoundBits(s, sig, sticky, e, BitLen(sig))

\* i32 as f32.
I32AsF32(n) ==
    IF n >= 0 THEN F32Round(0, n, FALSE, 0) ELSE F32Round(1, -n, FALSE, 0)

\* u32 as f32, the u32 given as four bytes.
U32AsF32(w) ==
    LET hi == w[4] * 65536 + w[3] * 256 + w[2]
    IN  IF hi < 4194304
        THEN F32Round(0, hi * 256 + w[1], FALSE, 0)
        ELSE F32Round(0, hi * 64 + (w[1] \div 4), w[1] % 4 # 0, 2)

\* -x.
F32Neg(a) == IF a.m = 0 THEN a ELSE [a EXCEPT !.s = 1 - a.s]

\* |a| < |b|.
F32MagLess(a, b) ==
    IF b.m = 0 THEN FALSE
    ELSE IF a.m = 0 THEN TRUE
    ELSE a.e < b.e \/ (a.e = b.e /\ a.m < b.m)

\* a < b.
F32Less(a, b) ==
    IF a.s = 1 /\ b.s = 0 THEN a.m # 0 \/ b.m # 0
    ELSE IF a.s = 0 /\ b.s = 1 THEN FALSE
    ELSE IF a.s = 0 THEN F32MagLess(a, b)
    ELSE F32MagLess(b, a)

\* a > b, the comparison of `best_dist.unwrap() > dist`.
F32Greater(a, b) == F32Less(b, a)

\* a <= b.
F32Leq(a, b) == ~F32Less(b, a)

\* The 48-bit product hi0 * 2^24 + low of two significands, rounded.
MulRound(s, hi0, low, e) ==
    F32Round(s,
             (hi0 + (low \div 16777216)) * 64 + ((low % 16777216) \div 262144),
             low % 262144 # 0,
             e)

\* The partial products of the 12-bit halves, summed.
MulParts(s, hh, mid, ll, e) ==
    MulRound(s, hh + (mid \div 4096), ll + (mid % 4096) * 4096, e)

\* The significands split into 12-bit halves.
MulHalves(s, a1, a0, b1, b0, e) ==
    MulParts(s, a1 * b1, a1 * b0 + a0 * b1, a0 * b0, e)

\* a * b.
F32Mul(a, b) ==
    IF a.m = 0 \/ b.m = 0 THEN F32Zero
    ELSE MulHalves((a.s + b.s) % 2,
                   a.m \div 4096, a.m % 4096, b.m \div 4096, b.m % 4096,
                   a.e + b.e + 18)

\* Long division: c more quotient bits of r / d appended to the pair
\* <<quotient, remainder>>, for r < d < 2^24 and c <= 6.
DivChunk(qr, d, c) ==
    LET t == qr[2] * (2 ^ c)
    IN  <<qr[1] * (2 ^ c) + (t \div d), t % d>>

\* The quotient pair <<quotient, remainder>>, rounded.
DivRound(s, qr, e) == F32Round(s, qr[1], qr[2] # 0, e)

\* a / b for b # 0: the integer bit and 26 fraction bits of the quotient of
\* the significands, then rounding.
F32Div(a, b) ==
    IF a.m = 0 THEN F32Zero
    ELSE DivRound((a.s + b.s) % 2,
                  DivChunk(DivChunk(DivChunk(DivChunk(DivChunk(
                      <<a.m \div b.m, a.m % b.m>>,
                      b.m, 6), b.m, 6), b.m, 6), b.m, 6), b.m, 2),
                  a.e - b.e - 26)

\* big.m * 32 plus or minus B, the smaller significand aligned to it; lost
\* says that bits of the smaller operand fell off the alignment.
AddSignificands(big, small_s, B, lost) ==
    F32Round(big.s,
             IF big.s = small_s THEN big.m * 32 + B
             ELSE IF lost THEN big.m * 32 - B - 1
             ELSE big.m * 32 - B,
             lost,
             big.e - 5)

\* |big| >= |small|, both non-zero; d is the exponent difference.
AddAligned(big, small, d) ==
    AddSignificands(big, small.s,
                    IF d > 29 THEN 0 ELSE (small.m * 32) \div (2 ^ d),
                    IF d > 29 THEN TRUE ELSE (small.m * 32) % (2 ^ d) # 0)

\* a + b.
F32Add(a, b) ==
    IF a.m = 0 THEN b
    ELSE IF b.m = 0 THEN a
    ELSE IF F32MagLess(a, b) THEN AddAligned(b, a, b.e - a.e)
    ELSE AddAligned(a, b, a.e - b.e)

\* a - b.
F32Sub(a, b) == F32Add(a, F32Neg(b))

\* Pair i (1 = most significant) of the 54-bit radicand m2 * 4^14.
SqrtPair(m2, i) == IF i <= 13 THEN (m2 \div (4 ^ (13 - i))) % 4 ELSE 0

\* The digit-by-digit square root from step i on: the next two radicand
\* bits are brought down onto the remainder, and the root gains a bit.
RECURSIVE SqrtBits(_, _, _, _)
RECURSIVE SqrtStep(_, _, _, _)
SqrtBits(root, rem, m2, i) ==
    IF i > 27 THEN <<root, rem>>
    ELSE SqrtStep(root, rem * 4 + SqrtPair(m2, i), m2, i)

SqrtStep(root, r4, m2, i) ==
    IF r4 >= 4 * root + 1
    THEN SqrtBits(2 * root + 1, r4 - (4 * root + 1), m2, i + 1)
    ELSE SqrtBits(2 * root, r4, m2, i + 1)

\* The pair <<root, remainder>>, rounded; e2 is the even exponent.
SqrtRound(rr, e2) == F32Round(0, rr[1], rr[2] # 0, (e2 \div 2) - 14)

\* sqrt(a) for a >= 0: 27 root bits of the significand, made to have an
\* even exponent, then rounding.
F32Sqrt(a) ==
    IF a.m = 0 THEN F32Zero
    ELSE IF a.e % 2 = 1 THEN SqrtRound(SqrtBits(0, 0, 2 * a.m, 1), a.e - 1)
    ELSE SqrtRound(SqrtBits(0, 0, a.m, 1), a.e)

\* floor(a) as i32.
F32FloorAsI32(a) ==
    IF a.m = 0 THEN 0
    ELSE IF a.e >= 0 THEN (IF a.s = 0 THEN 1 ELSE -1) * a.m * (2 ^ a.e)
    ELSE IF -a.e >= 24 THEN (IF a.s = 0 THEN 0 ELSE -1)
    ELSE LET q == a.m \div (2 ^ (-a.e))
             r == a.m % (2 ^ (-a.e))
         IN  IF a.s = 0 THEN q
             ELSE IF r = 0 THEN -q ELSE -q - 1

(***************************************************************************)
(* Vec2 / IVec2 (glam), as pairs                                           *)
(***************************************************************************)

Vec2Div(a, b)  == <<F32Div(a[1], b[1]), F32Div(a[2], b[2])>>
Vec2DivS(a, k) == <<F32Div(a[1], k), F32Div(a[2], k)>>
Vec2Mul(a, b)  == <<F32Mul(a[1], b[1]), F32Mul(a[2], b[2])>>
Vec2Add(a, b)  == <<F32Add(a[1], b[1]), F32Add(a[2], b[2])>>
Vec2Sub(a, b)  == <<F32Sub(a[1], b[1]), F32Sub(a[2], b[2])>>

\* Vec2::length: sqrt(x * x + y * y).
Vec2Length(a) == F32Sqrt(F32Add(F32Mul(a[1], a[1]), F32Mul(a[2], a[2])))

\* Vec2::floor().as_ivec2().
FloorAsIVec2(a) == <<F32FloorAsI32(a[1]), F32FloorAsI32(a[2])>>

\* IVec2::as_vec2.
AsVec2(c) == <<I32AsF32(c[1]), I32AsF32(c[2])>>

(***************************************************************************)
(* worley_center (main.rs 209-217)                                         *)
(***************************************************************************)

U32Max == <<255, 255, 255, 255>>

\* The two 32-bit windows taken from the hash.
bits1(hash) == ShrAsU32(hash, 12)
bits2(hash) == ShrAsU32(hash, 32)

\* Lines 212-216: the centre derived from the hash.
CenterOf(hash) ==
    << F32Div(U32AsF32(bits1(hash)), U32AsF32(U32Max)),
       F32Div(U32AsF32(bits2(hash)), U32AsF32(U32Max)) >>

\* Get the center of a worley cell, ZERO to ONE.
worley_center(cell, seed) == CenterOf(cell_hash(cell, seed))

(***************************************************************************)
(* worley (main.rs 219-241)                                                *)
(***************************************************************************)

\* The offsets (xo, yo) in the order the two nested loops visit them.
ScanOffsets ==
    << <<-1, -1>>, <<-1, 0>>, <<-1, 1>>,
       << 0, -1>>, << 0, 0>>, << 0, 1>>,
       << 1, -1>>, << 1, 0>>, << 1, 1>> >>

\* floor(sample_pos / cell_size) as a cell.
BaseCell(sample_pos, cell_size) == FloorAsIVec2(Vec2Div(sample_pos, cell_size))

\* Lines 230-231: the world-space centre of the neighbour and its distance
\* from the sample.
Measured(sample_pos, cell_size, neighbor, center) ==
    [cell   |-> neighbor,
     center |-> center,
     dist   |-> Vec2Length(Vec2Sub(
                    Vec2Add(Vec2Mul(AsVec2(neighbor), cell_size),
                            Vec2Mul(center, cell_size)),
                    sample_pos))]

\* Lines 228-229: the neighbour at an offset and its centre.
Neighbor(sample_pos, cell_size, seed, neighbor) ==
    Measured(sample_pos, cell_size, neighbor, worley_center(neighbor, seed))

\* The loop body up to the comparison.
Candidate(sample_pos, cell_size, seed, base_cell, off) ==
    Neighbor(sample_pos, cell_size, seed,
             <<base_cell[1] + off[1], base_cell[2] + off[2]>>)

\* The comparison with `>=` in place of `>`: a candidate at an equal
\* distance would replace the best one.
ReplacesOnTie(best, cand) == best = <<>> \/ F32Leq(cand.dist, best[1].dist)

\* The comparison: `best_dist.is_none() || best_dist.unwrap() > dist`.
Replaces(best, cand) == best = <<>> \/ F32Greater(best[1].dist, cand.dist)

\* The loop from its k-th iteration on; best is <<>> (None) or <<candidate>>.
RECURSIVE Scan(_, _, _)
Scan(cands, k, best) ==
    IF k > Len(cands) THEN best[1]
    ELSE Scan(cands, k + 1,
              IF Replaces(best, cands[k]) THEN <<cands[k]>> ELSE best)

\* The candidates at offsets offs[k..], appended to out.
RECURSIVE CandidatesFrom(_, _, _, _, _, _, _)
CandidatesFrom(sample_pos, cell_size, seed, base_cell, offs, k, out) ==
    IF k > Len(offs) THEN out
    ELSE CandidatesFrom(sample_pos, cell_size, seed, base_cell, offs, k + 1,
            Append(out, Candidate(sample_pos, cell_size, seed, base_cell,
                                  offs[k])))

\* The candidates of a search, in visiting order.
Candidates(sample_pos, cell_size, seed) ==
    CandidatesFrom(sample_pos, cell_size, seed,
                   BaseCell(sample_pos, cell_size), ScanOffsets, 1, <<>>)

\* One call of worley with what it computed on the way: its arguments, the
\* candidates in visiting order and the one the loop ends with.
SearchOver(sample_pos, cell_size, cands) ==
    [pos   |-> sample_pos,
     size  |-> cell_size,
     cands |-> cands,
     best  |-> Scan(cands, 1, <<>>)]

Search(sample_pos, cell_size, seed) ==
    SearchOver(sample_pos, cell_size, Candidates(sample_pos, cell_size, seed))

\* The value a search returns: (best_cell.unwrap(), best_dist.unwrap()).
Returned(s) == [cell |-> s.best.cell, dist |-> s.best.dist]

worley(sample_pos, cell_size, seed) ==
    Returned(Search(sample_pos, cell_size, seed))

(***************************************************************************)
(* hierarchical_worley (main.rs 243-262)                                   *)
(***************************************************************************)

\* 0.25 and 0.75 as f32.
Quarter       == [s |-> 0, m |-> 8388608, e |-> -25]
ThreeQuarters == [s |-> 0, m |-> 12582912, e |-> -24]

\* The blend without the weight on the coarser distance.
BlendUnweighted(dist_o, dist) == F32Add(dist_o, F32Mul(dist, ThreeQuarters))

\* The blend with the two weights exchanged.
BlendSwapped(dist_o, dist) ==
    F32Add(F32Mul(dist_o, ThreeQuarters), F32Mul(dist, Quarter))

\* dist_o * 0.25 + dist * 0.75.
Blend(dist_o, dist) ==
    F32Add(F32Mul(dist_o, Quarter), F32Mul(dist, ThreeQuarters))

\* A depth-0 activation that would return the search's distance.
BaseReturnWithDistance(s) ==
    [finer  |-> F32Zero,
     search |-> s,
     dist_o |-> s.best.dist,
     cell   |-> s.best.cell,
     dist   |-> s.best.dist]

\* The activation with depth = 0 (lines 250-253) after its search s: the
\* search's distance is dropped and (cell, 0.0) returned.  Beside the
\* returned cell and dist the record keeps the locals: the search, its
\* distance dist_o and the finer distance that went into the blend.
BaseReturn(s) ==
    [finer  |-> F32Zero,
     search |-> s,
     dist_o |-> s.best.dist,
     cell   |-> s.best.cell,
     dist   |-> F32Zero]

BaseCase(sample_pos, cell_size, seed) ==
    BaseReturn(Search(sample_pos, cell_size, seed))

\* Line 261: the return of an activation with depth > 0, whose recursive
\* call returned `finer` and whose search is s.
ComposeReturn(finer, s) ==
    [finer  |-> finer.dist,
     search |-> s,
     dist_o |-> s.best.dist,
     cell   |-> s.best.cell,
     dist   |-> Blend(s.best.dist, finer.dist)]

\* Lines 258-261: an activation with depth > 0 after its recursive call
\* returned `finer`.
Compose(finer, cell_size, finer_cell_size, seed) ==
    ComposeReturn(finer,
                  Search(Vec2Mul(AsVec2(finer.cell), finer_cell_size),
                         cell_size, seed))

RECURSIVE hierarchical_worley(_, _, _, _, _)
hierarchical_worley(sample_pos, cell_size, seed, depth, growth) ==
    IF depth = 0
    THEN BaseCase(sample_pos, cell_size, seed)
    ELSE LET finer_cell_size == Vec2DivS(cell_size, growth)
         IN  Compose(hierarchical_worley(sample_pos, finer_cell_size, seed,
                                         depth - 1, growth),
                     cell_size, finer_cell_size, seed)

(***************************************************************************)
(* main (main.rs 61-196): the frame loop and the parallel per-pixel fill   *)
(***************************************************************************)

WIDTH  == 5120
HEIGHT == 1440

\* Depths 0..MaxDepth are explored.
MaxDepth == 2

\* The render specification follows the first NumPixels buffer indices of
\* RenderOrder.
NumPixels == 3

\* Buffer indices followed by the model: (0,0), (1,0), (0,1), (1,1), (2,1)
\* and (447,255).
RenderOrder == <<0, 1, WIDTH, WIDTH + 1, WIDTH + 2>>
RenderPixels == {RenderOrder[k] : k \in 1..NumPixels}
QueryPixels == {0, WIDTH + 2, 255 * WIDTH + 447}

\* Seeds that `random()` can return.
Seed10      == NatToU64(10)
Seed14      == NatToU64(14)
SeedPartner == U64(\h8893, \h2a4f, \h370b, \h512b)
SeedOnes    == U64(\h2efd, \h7172, \h34ad, \h2e50)
Seeds == {Seed10, Seed14, SeedPartner, SeedOnes}
RenderSeeds == {Seed10, SeedOnes}

\* Cell sizes: 1, 4, 16, a negative component, 2^-23, and main's 256.
TwoPowMinus23 == [s |-> 0, m |-> 8388608, e |-> -46]
CellSizes ==
    { <<I32AsF32(1), I32AsF32(1)>>,
      <<I32AsF32(4), I32AsF32(4)>>,
      <<I32AsF32(16), I32AsF32(16)>>,
      <<I32AsF32(-4), I32AsF32(4)>>,
      <<TwoPowMinus23, TwoPowMinus23>> }
MainCells == <<I32AsF32(256), I32AsF32(256)>>

\* Growth factors: 2.0 and main's 3.0.
Growths == {I32AsF32(2), I32AsF32(3)}
MainGrowth == I32AsF32(3)

VARIABLES
    seed,      \* main's seed
    cells,     \* main's cells, the cell size passed to hierarchical_worley
    depth,     \* main's depth
    growth,    \* main's growth
    tracked,   \* the buffer indices the model follows
    pc,        \* main's position: "loop", "render", "present" or "saved"
    buff,      \* buffer.buff at the tracked indices
    task,      \* the for_each closure of each tracked index
    img        \* the image saved on exit, "none" before

vars == <<seed, cells, depth, growth, tracked, pc, buff, task, img>>

\* U8Vec3::ZERO, the content reset() fills the buffer with.
ZERO == [zero |-> TRUE]

\* A closure that has not started, and one that has stored its pixel.
Pending == [pc |-> "pending"]
Written == [pc |-> "written"]

\* Lines 99-103: the sample of buffer index i.
Sample(i) == <<I32AsF32(i % WIDTH), I32AsF32(i \div WIDTH)>>

\* The cell size of the activation n calls below the outermost one:
\* `cell_size / growth`, n times.
RECURSIVE CellSizeAt(_, _, _)
CellSizeAt(cell_size, g, n) ==
    IF n = 0 THEN cell_size ELSE Vec2DivS(CellSizeAt(cell_size, g, n - 1), g)

\* Lines 110-171: the colour stored in the pixel is computed from
\* cell_hash(cell, seed), which seeds the generator, and from dist, which
\* scales it; the pixel is kept as that pair.
Shade(ret, sd) == [hash |-> cell_hash(ret.cell, sd), dist |-> ret.dist]

\* No `as i32` cast saturates: the sample expressed in the finest cells
\* stays below 2^30 in magnitude.
TwoPow30 == [s |-> 0, m |-> 8388608, e |-> 7]
NoSaturation(i, cell_size, g, d) ==
    LET p == Vec2Div(Sample(i), CellSizeAt(cell_size, g, d))
    IN  F32MagLess(p[1], TwoPow30) /\ F32MagLess(p[2], TwoPow30)

\* The state main reaches before its first frame.
Start0 ==
    /\ tracked \subseteq 0..(WIDTH * HEIGHT - 1)
    /\ pc = "loop"
    /\ buff = [i \in tracked |-> ZERO]
    /\ task = [i \in tracked |-> Pending]
    /\ img = "none"

\* One query: any seed, cell size, depth and growth, one pixel.
Init ==
    /\ seed \in Seeds
    /\ cells \in CellSizes
    /\ depth \in 0..MaxDepth
    /\ growth \in Growths
    /\ tracked \in {{i} : i \in QueryPixels}
    /\ \A i \in tracked : NoSaturation(i, cells, growth, depth)
    /\ Start0

\* main's own parameters (cells 256, growth 3.0), several pixels in parallel.
RenderInit ==
    /\ seed \in RenderSeeds
    /\ cells = MainCells
    /\ depth \in 0..MaxDepth
    /\ growth = MainGrowth
    /\ tracked = RenderPixels
    /\ Start0

\* Lines 89-98: refresh.elapsed() is below a second; the buffer is reset and
\* the parallel iteration starts.
Reset ==
    /\ pc = "loop"
    /\ pc' = "render"
    /\ buff' = [i \in tracked |-> ZERO]
    /\ task' = [i \in tracked |-> Pending]
    /\ UNCHANGED <<seed, cells, depth, growth, tracked, img>>

\* Line 89: a second or more has elapsed; the frame is not rendered again.
Skip ==
    /\ pc = "loop"
    /\ pc' = "present"
    /\ UNCHANGED <<seed, cells, depth, growth, tracked, buff, task, img>>

\* The closure of pixel i calls hierarchical_worley; the recursion descends
\* to depth 0 and that activation returns.
Begin(i) ==
    /\ pc = "render"
    /\ task[i].pc = "pending"
    /\ task' = [task EXCEPT ![i] =
                  [pc    |-> "running",
                   level |-> 0,
                   ret   |-> BaseCase(Sample(i),
                                      CellSizeAt(cells, growth, depth), seed)]]
    /\ UNCHANGED <<seed, cells, depth, growth, tracked, pc, buff, img>>

\* The activation with depth = level + 1 receives its callee's result and
\* returns.
Ascend(i) ==
    /\ pc = "render"
    /\ task[i].pc = "running"
    /\ task[i].level < depth
    /\ LET cell_size == CellSizeAt(cells, growth, depth - (task[i].level + 1))
           finer_cell_size == Vec2DivS(cell_size, growth)
       IN  task' = [task EXCEPT ![i] =
                      [pc    |-> "running",
                       level |-> task[i].level + 1,
                       ret   |-> Compose(task[i].ret, cell_size,
                                         finer_cell_size, seed)]]
    /\ UNCHANGED <<seed, cells, depth, growth, tracked, pc, buff, img>>

\* A store through a shared slot: every closure would write the first
\* tracked pixel.
WriteFirstSlot(i) ==
    /\ pc = "render"
    /\ task[i].pc = "running"
    /\ task[i].level = depth
    /\ buff' = [buff EXCEPT ![CHOOSE j \in tracked : \A k \in tracked : j <= k]
                                 = Shade(task[i].ret, seed)]
    /\ task' = [task EXCEPT ![i] = Written]
    /\ UNCHANGED <<seed, cells, depth, growth, tracked, pc, img>>

\* Line 171: `*pixel = rgb`, once the outermost activation has returned.
Write(i) ==
    /\ pc = "render"
    /\ task[i].pc = "running"
    /\ task[i].level = depth
    /\ buff' = [buff EXCEPT ![i] = Shade(task[i].ret, seed)]
    /\ task' = [task EXCEPT ![i] = Written]
    /\ UNCHANGED <<seed, cells, depth, growth, tracked, pc, img>>

\* for_each returns when every closure has run.
Join ==
    /\ pc = "render"
    /\ \A i \in tracked : task[i].pc = "written"
    /\ pc' = "present"
    /\ UNCHANGED <<seed, cells, depth, growth, tracked, buff, task, img>>

\* Lines 175-185: window.update_with_buffer.
Present ==
    /\ pc = "present"
    /\ pc' = "loop"
    /\ UNCHANGED <<seed, cells, depth, growth, tracked, buff, task, img>>

\* Lines 88, 188-195: the window closes or Escape is down; the buffer is
\* saved as output.png.
Exit ==
    /\ pc = "loop"
    /\ pc' = "saved"
    /\ img' = buff
    /\ UNCHANGED <<seed, cells, depth, growth, tracked, buff, task>>

Next ==
    \/ Reset
    \/ Skip
    \/ \E i \in tracked : Begin(i)
    \/ \E i \in tracked : Ascend(i)
    \/ \E i \in tracked : Write(i)
    \/ Join
    \/ Present
    \/ Exit

Spec == Init /\ [][Next]_vars

RenderSpec == RenderInit /\ [][Next]_vars

(***************************************************************************)
(* Properties                                                              *)
(***************************************************************************)

\* 1.0 as f32.
One == I32AsF32(1)

\* The closures whose innermost finished activation is recorded in task.
Running == {i \in tracked : task[i].pc = "running"}

\* 0 <= a, and 0 <= a < 1.
NonNeg(a) == a.m = 0 \/ a.s = 0
InUnit(a) == NonNeg(a) /\ F32Less(a, One)

\* Both components of a cell size are > 0; some component is <= 0.
Positive(size)    == \A k \in 1..2 : size[k].m # 0 /\ size[k].s = 0
NonPositive(size) == \E k \in 1..2 : size[k].m = 0 \/ size[k].s = 1

F32Min(a, b) == IF F32Less(b, a) THEN b ELSE a
F32Max(a, b) == IF F32Less(a, b) THEN b ELSE a

\* The cell size of the activations at level n of the current query.
LevelSize(n) == CellSizeAt(cells, growth, depth - n)

---------------------------------------------------------------------------
\* C1: for every cell a search visits, both components of
\* worley_center(cell, seed) are >= 0 and < 1.
C1_CenterInUnitSquare ==
    \A i \in Running : \A k \in 1..9 :
        LET center == worley_center(task[i].ret.search.cands[k].cell, seed)
        IN  InUnit(center[1]) /\ InUnit(center[2])

\* A search has visited a cell whose centre has a component equal to 1.0.
C1_CenterReachesOne ==
    \E i \in Running : \E k \in 1..9 :
        LET center == worley_center(task[i].ret.search.cands[k].cell, seed)
        IN  center[1] = One \/ center[2] = One

---------------------------------------------------------------------------
\* The sample lies strictly inside its cell: on no grid line.
StrictlyInside(pos, size) ==
    LET p == Vec2Div(pos, size)
    IN  \A k \in 1..2 : I32AsF32(F32FloorAsI32(p[k])) # p[k]

\* The candidates of the 5x5 neighbourhood of a search.
WiderCandidates(s) ==
    { Candidate(s.pos, s.size, seed, BaseCell(s.pos, s.size), <<xo, yo>>) :
        xo \in -2..2, yo \in -2..2 }

\* The case of C2: positive cell size, sample strictly inside its cell, the
\* centres of the 5x5 neighbourhood inside their cells.
Jittered(s, wider) ==
    /\ Positive(s.size)
    /\ StrictlyInside(s.pos, s.size)
    /\ \A c \in wider : InUnit(c.center[1]) /\ InUnit(c.center[2])

\* C2: when the sample is strictly inside its cell and every centre of the
\* 5x5 neighbourhood lies in its own cell, no centre of the 5x5
\* neighbourhood is nearer than the one the 3x3 scan returns.
C2_NeighbourSufficiency ==
    \A i \in Running :
        LET s     == task[i].ret.search
            wider == WiderCandidates(s)
        IN  Jittered(s, wider) =>
                \A c \in wider : ~F32Less(c.dist, s.best.dist)

\* A search whose sample is strictly inside its cell, with every centre of
\* the 5x5 neighbourhood inside its own cell, has returned.
C2_JitteredSearchMade ==
    \E i \in Running :
        Jittered(task[i].ret.search, WiderCandidates(task[i].ret.search))

---------------------------------------------------------------------------
\* Cell k (1..9) of the scan, the x offset changing slowest, and the
\* Euclidean distance from the sample to its world-space centre.
NinthCell(base, k) ==
    <<base[1] + (((k - 1) \div 3) - 1), base[2] + (((k - 1) % 3) - 1)>>

CentreDistance(pos, size, cell, sd) ==
    Vec2Length(Vec2Sub(Vec2Add(Vec2Mul(AsVec2(cell), size),
                               Vec2Mul(worley_center(cell, sd), size)),
                       pos))

NineDistances(pos, size, base, sd) ==
    << CentreDistance(pos, size, NinthCell(base, 1), sd),
       CentreDistance(pos, size, NinthCell(base, 2), sd),
       CentreDistance(pos, size, NinthCell(base, 3), sd),
       CentreDistance(pos, size, NinthCell(base, 4), sd),
       CentreDistance(pos, size, NinthCell(base, 5), sd),
       CentreDistance(pos, size, NinthCell(base, 6), sd),
       CentreDistance(pos, size, NinthCell(base, 7), sd),
       CentreDistance(pos, size, NinthCell(base, 8), sd),
       CentreDistance(pos, size, NinthCell(base, 9), sd) >>

\* The first index at which a tuple of distances has its least value.
FirstMinimum(d) ==
    CHOOSE k \in 1..Len(d) :
        /\ \A j \in 1..Len(d) : ~F32Less(d[j], d[k])
        /\ \A j \in 1..(k - 1) : F32Less(d[k], d[j])

\* C3: every search returns one of the nine cells floor(sample / cell_size)
\* + (dx, dy), with the Euclidean distance from the sample to that cell's
\* centre; the distance is the least of the nine, and of the cells at that
\* distance the one visited first (x offset changing slowest, y offset
\* fastest) is returned.
C3_FirstMinimumOfNine ==
    \A i \in Running :
        LET s    == task[i].ret.search
            base == BaseCell(s.pos, s.size)
            d    == NineDistances(s.pos, s.size, base, seed)
            k    == FirstMinimum(d)
        IN  Returned(s) = [cell |-> NinthCell(base, k), dist |-> d[k]]

\* A search in which several candidates are at the least distance has
\* returned, and the first of them is not the first cell visited.
C3_TieResolved ==
    \E i \in Running :
        LET s == task[i].ret.search
            least == {k \in 1..9 : s.cands[k].dist = s.best.dist}
        IN  Cardinality(least) >= 2 /\ 1 \notin least

---------------------------------------------------------------------------
\* C4: no call whose cell size has a component <= 0 returns a
\* (cell, distance) result.
C4_NonPositiveRejected == NonPositive(cells) => Running = {}

\* A call with a cell size with a negative component has returned.
C4_NonPositiveReturned == NonPositive(cells) /\ Running # {}

---------------------------------------------------------------------------
\* C5: the weights are 0.25 and 0.75 and sum to 1; every returned distance
\* is >= 0; and the distance d an activation with depth > 0 returns is
\* 0.25 * coarser + 0.75 * finer with
\* 0 <= min(coarser, finer) <= d <= max(coarser, finer).
C5_BlendBounds ==
    /\ F32Mul(Quarter, I32AsF32(4)) = One
    /\ F32Add(Quarter, ThreeQuarters) = One
    /\ \A i \in Running :
        LET r == task[i].ret
        IN  /\ NonNeg(r.dist)
            /\ task[i].level > 0 =>
                /\ r.dist = F32Add(F32Mul(r.dist_o, Quarter),
                                   F32Mul(r.finer, ThreeQuarters))
                /\ NonNeg(F32Min(r.dist_o, r.finer))
                /\ F32Leq(F32Min(r.dist_o, r.finer), r.dist)
                /\ F32Leq(r.dist, F32Max(r.dist_o, r.finer))

\* An activation with depth > 0 has blended two different positive
\* distances into one strictly between them.
C5_BlendStrictlyBetween ==
    \E i \in Running :
        LET r == task[i].ret
        IN  /\ task[i].level > 0
            /\ r.finer.m # 0
            /\ r.dist_o.m # 0
            /\ F32Less(F32Min(r.dist_o, r.finer), r.dist)
            /\ F32Less(r.dist, F32Max(r.dist_o, r.finer))

---------------------------------------------------------------------------
\* Cells at which two seeds are compared.
ProbeCells == {<<x, y>> : x \in -3..3, y \in -3..3} \cup {<<447, 255>>}

\* C6: every seed different from the current one gives some cell a
\* different hash.
C6_DistinctSeedsDiffer ==
    \A other \in Seeds :
        other # seed =>
            \E c \in ProbeCells : cell_hash(c, other) # cell_hash(c, seed)

\* The frame is being rendered with a seed that has a different seed
\* agreeing with it on every probed cell.
C6_SeedHasTwin ==
    /\ Running # {}
    /\ \E other \in Seeds :
        /\ other # seed
        /\ \A c \in ProbeCells : cell_hash(c, other) = cell_hash(c, seed)

---------------------------------------------------------------------------
\* C7 as stated: the activation with depth 0 returns the cell of
\* worley(sample, cell_size, seed) and that search's distance.
C7_DepthZeroReturnsSearchDistance ==
    \A i \in Running :
        task[i].level = 0 =>
            LET w == worley(Sample(i), LevelSize(0), seed)
            IN  task[i].ret.cell = w.cell /\ task[i].ret.dist = w.dist

\* C7, corrected: the activation with depth 0 returns the cell of
\* worley(sample, cell_size, seed) and the distance 0.0.
C7_DepthZeroReturnsCellAndZero ==
    \A i \in Running :
        task[i].level = 0 =>
            LET w == worley(Sample(i), LevelSize(0), seed)
            IN  task[i].ret.cell = w.cell /\ task[i].ret.dist = F32Zero

\* The scenario's call (seed 10, cell size (4,4), depth 0) has returned, and
\* the distance of its search is not zero.
C7_ScenarioReturned ==
    \E i \in Running :
        /\ seed = Seed10
        /\ cells = <<I32AsF32(4), I32AsF32(4)>>
        /\ depth = 0
        /\ task[i].level = 0
        /\ task[i].ret.search.best.dist.m # 0

---------------------------------------------------------------------------
\* The buffer a sequential evaluation of the tracked pixels produces.
Sequential ==
    [i \in tracked |->
        Shade(hierarchical_worley(Sample(i), cells, seed, depth, growth), seed)]

\* C8: a closure writes its own pixel only, and whatever the order in which
\* the closures ran, once all have stored their pixel the buffer is the one
\* a sequential evaluation produces; so is a saved image that is not blank.
C8_InterleavingIndependent ==
    /\ \A i \in tracked :
        (pc = "render" /\ task[i].pc # "written") => buff[i] = ZERO
    /\ (\A i \in tracked : task[i].pc = "written") => buff = Sequential
    /\ pc = "saved" => (img = [i \in tracked |-> ZERO] \/ img = Sequential)

\* A frame has been rendered to the end and saved, and its pixels differ.
C8_FrameSaved ==
    /\ pc = "saved"
    /\ \A i \in tracked : task[i].pc = "written"
    /\ \E i, j \in tracked : img[i] # img[j]

---------------------------------------------------------------------------
\* The hash with bit b (0 = least significant) inverted.
FlipBit(h, b) ==
    [k \in 1..8 |->
        IF k # (b \div 8) + 1 THEN h[k]
        ELSE IF (h[k] \div (2 ^ (b % 8))) % 2 = 1
             THEN h[k] - 2 ^ (b % 8)
             ELSE h[k] + 2 ^ (b % 8)]

\* C9: no bit of the hash is used for both components of the centre:
\* inverting any one bit leaves the window of x or the window of y as it was.
C9_DisjointBitRanges ==
    \A i \in Running :
        LET hash == cell_hash(task[i].ret.cell, seed)
        IN  \A b \in 0..63 :
                \/ bits1(FlipBit(hash, b)) = bits1(hash)
                \/ bits2(FlipBit(hash, b)) = bits2(hash)

\* A hash has been taken, and inverting its bit 32 changes both windows.
C9_SharedBit ==
    \E i \in Running :
        LET hash == cell_hash(task[i].ret.cell, seed)
        IN  /\ bits1(FlipBit(hash, 32)) # bits1(hash)
            /\ bits2(FlipBit(hash, 32)) # bits2(hash)

---------------------------------------------------------------------------
\* The distance of the search an activation with depth 1 makes:
\* worley(new_sample_pos, cell_size, seed), new_sample_pos being the cell the
\* depth-0 activation returns times cell_size / growth.
CoarserDistance(i) ==
    LET cell_size       == LevelSize(1)
        finer_cell_size == Vec2DivS(cell_size, growth)
        finer  == hierarchical_worley(Sample(i), finer_cell_size, seed, 0,
                                      growth)
        new_sample_pos == Vec2Mul(AsVec2(finer.cell), finer_cell_size)
    IN  worley(new_sample_pos, cell_size, seed).dist

\* C10 as stated: the distance an activation with depth 1 returns equals
\* the distance of worley(new_sample_pos, cell_size, seed).
C10_DepthOneEqualsCoarser ==
    \A i \in Running :
        task[i].level = 1 => task[i].ret.dist = CoarserDistance(i)

\* C10, corrected: the depth-0 activation contributes 0.0, and the distance
\* an activation with depth 1 returns equals 0.25 times the distance of
\* worley(new_sample_pos, cell_size, seed).
C10_DepthOneQuarterOfCoarser ==
    \A i \in Running :
        task[i].level = 1 =>
            /\ task[i].ret.finer = F32Zero
            /\ task[i].ret.dist = F32Mul(CoarserDistance(i), Quarter)

\* An activation with depth 1 has returned after a search whose distance is
\* not zero.
C10_DepthOneReturned ==
    \E i \in Running : task[i].level = 1 /\ task[i].ret.dist_o.m # 0

====
